---- MODULE Spec2Model ----
(***************************************************************************)
(* A model of saibautils.logger.Logger (src/saibautils/logger.py): the     *)
(* constructor's validation and sink creation, the four leveled entry      *)
(* points and _log's dispatch to stdout / Elasticsearch / OpenObserve, and *)
(* _get_call_tree's filtering and formatting of the captured call stack.   *)
(*                                                                         *)
(* Python values are modelled as follows.  The mode string is a sequence   *)
(* of one-character strings, so that the substring tests of the source     *)
(* ("elastic" in mode) are computed rather than tabulated.  Every other    *)
(* string is a TLA+ string.  None is the value None below.  An object is   *)
(* the record [type |-> <name of its runtime class>]; the None object is   *)
(* [type |-> "NoneType"], which is what None.__class__.__name__ yields.    *)
(***************************************************************************)
EXTENDS Integers, Sequences, FiniteSets, TLC

VARIABLES
    args,       \* the arguments of the constructor call
    phase,      \* "new" before __init__ ran, then "constructed" or "failed"
    cls,        \* self.__class__.__name__ of the Logger object
    mode,       \* self.mode   (Unset while the attribute does not exist)
    es,         \* self.es     (NoHandle while the attribute does not exist)
    oo,         \* self.oo
    index,      \* self.index
    clients,    \* the backend clients constructed so far, in order
    raised,     \* the exception the last operation propagated, or NoError
    stdout,     \* the lines printed to the console
    esLog,      \* the index requests made on self.es, each with its outcome
    ooLog,      \* the index requests made on self.oo, each with its outcome
    emits,      \* number of calls of debug/info/warning/error made
    call,       \* the entry point and message of the last such call
    stack,      \* the stack inspect.stack() returned to _get_call_tree
    call_tree   \* the string _get_call_tree returned

vars == <<args, phase, cls, mode, es, oo, index, clients, raised, stdout,
          esLog, ooLog, emits, call, stack, call_tree>>

----------------------------------------------------------------------------
(* Bounds of the model *)

\* most caller frames above the entry point in a stack the resolver is given
MaxStack == 3

\* most calls of the entry points in one behaviour
MaxEmits == 2

----------------------------------------------------------------------------
(* Python values *)

None == "<None>"

\* bool(v) of an Optional[str]
Truthy(v) == v # None /\ v # ""

\* needle in hay, for strings held as sequences of characters
Contains(needle, hay) ==
    \E i \in 0..(Len(hay) - Len(needle)) :
        SubSeq(hay, i + 1, i + Len(needle)) = needle

S_console == <<"c","o","n","s","o","l","e">>
S_elastic == <<"e","l","a","s","t","i","c">>
S_openobserve == <<"o","p","e","n","o","b","s","e","r","v","e">>
S_dual_elastic == <<"d","u","a","l","-","e","l","a","s","t","i","c">>
S_dual_observe == <<"d","u","a","l","-","o","b","s","e","r","v","e">>
S_dual == <<"d","u","a","l">>
S_observe == <<"o","b","s","e","r","v","e">>
S_elasticsearch == <<"e","l","a","s","t","i","c","s","e","a","r","c","h">>

\* the list of line 38
ModeList == {S_console, S_elastic, S_openobserve, S_dual_elastic, S_dual_observe}

Unset == <<>>
NoHandle == [kind |-> "none"]
NoError == [type |-> "none"]
NoCall == [entry |-> "none", message |-> ""]

ModeError ==
    [type |-> "ValueError",
     msg |-> "Mode must be 'console', 'elastic', 'openobserve', 'dual-elastic' or 'dual-observe'"]
ElasticError ==
    [type |-> "ValueError",
     msg |-> "Elastic parameters need to be provided if mode is set to use Elasticsearch!"]
ObserveError ==
    [type |-> "ValueError",
     msg |-> "OpenObserve parameters need to be provided if mode is set to use OpenObserve!"]

\* Elasticsearch(url, api_key=elastic_key)
Elasticsearch(url, key) == [kind |-> "Elasticsearch", url |-> url, api_key |-> key]

\* OpenObserve(user=oo_user, password=oo_password, host=url, verify=False)
OpenObserve(user, password, host) ==
    [kind |-> "OpenObserve", user |-> user, password |-> password,
     host |-> host, verify |-> FALSE]

----------------------------------------------------------------------------
(* Logger.__init__ *)

\* line 38
ModeRejected(a) == a.mode \notin ModeList

\* line 40 with the test of elastic_key dropped
ElasticRejected_UrlOnly(a) ==
    Contains(S_elastic, a.mode) /\ ~Truthy(a.url)

\* line 40
ElasticRejected(a) ==
    Contains(S_elastic, a.mode) /\ ~(Truthy(a.url) /\ Truthy(a.elastic_key))

\* line 42 with the test of oo_password dropped
ObserveRejected_NoPassword(a) ==
    Contains(S_observe, a.mode) /\ ~(Truthy(a.url) /\ Truthy(a.oo_user))

\* line 42
ObserveRejected(a) ==
    Contains(S_observe, a.mode)
        /\ ~((Truthy(a.url) /\ Truthy(a.oo_user)) /\ Truthy(a.oo_password))

\* lines 38-43 with the mode check moved behind the parameter checks
InitError_ModeLast(a) ==
    IF Contains(S_elastic, a.mode) /\ ~(Truthy(a.url) /\ Truthy(a.elastic_key))
        THEN ElasticError
    ELSE IF Contains(S_observe, a.mode)
              /\ ~((Truthy(a.url) /\ Truthy(a.oo_user)) /\ Truthy(a.oo_password))
        THEN ObserveError
    ELSE IF a.mode \notin ModeList THEN ModeError
    ELSE NoError

\* the exception lines 38-43 raise for the arguments a, or NoError
InitError(a) ==
    IF ModeRejected(a) THEN ModeError
    ELSE IF ElasticRejected(a) THEN ElasticError
    ELSE IF ObserveRejected(a) THEN ObserveError
    ELSE NoError

\* the clients lines 46-49 construct for the arguments a, in order
InitClients(a) ==
    (IF Contains(S_elastic, a.mode)
        THEN <<Elasticsearch(a.url, a.elastic_key)>> ELSE <<>>)
    \o (IF Contains(S_observe, a.mode)
        THEN <<OpenObserve(a.oo_user, a.oo_password, a.url)>> ELSE <<>>)

Logger_init ==
    /\ phase = "new"
    /\ IF InitError(args) # NoError
         THEN /\ raised' = InitError(args)
              /\ phase' = "failed"
              /\ UNCHANGED <<mode, es, oo, index, clients>>
         ELSE /\ raised' = NoError
              /\ phase' = "constructed"
              /\ mode' = args.mode
              /\ es' = IF Contains(S_elastic, args.mode)
                         THEN Elasticsearch(args.url, args.elastic_key)
                         ELSE NoHandle
              /\ oo' = IF Contains(S_observe, args.mode)
                         THEN OpenObserve(args.oo_user, args.oo_password, args.url)
                         ELSE NoHandle
              /\ index' = args.index
              /\ clients' = clients \o InitClients(args)
    /\ UNCHANGED <<args, cls, stdout, esLog, ooLog, emits, call, stack, call_tree>>

----------------------------------------------------------------------------
(* Constructor arguments *)

OptStr == {None, "", "v"}

AllModes == ModeList \cup {S_dual, S_observe, S_elasticsearch}

AllArgs ==
    [mode : AllModes, url : OptStr, elastic_key : OptStr, oo_user : OptStr,
     oo_password : OptStr, index : {"logs", "app"}]

\* a logger object on which __init__ has not run yet
Fresh ==
    /\ phase = "new"
    /\ mode = Unset /\ es = NoHandle /\ oo = NoHandle /\ index = None
    /\ clients = <<>> /\ raised = NoError
    /\ stdout = <<>> /\ esLog = <<>> /\ ooLog = <<>>
    /\ emits = 0 /\ call = NoCall
    /\ stack = <<>> /\ call_tree = None

InitCtor ==
    /\ args \in AllArgs
    /\ cls = "Logger"
    /\ Fresh

NextCtor == Logger_init

SpecCtor == InitCtor /\ [][NextCtor]_vars

----------------------------------------------------------------------------
(* Logger._get_call_tree *)

\* a frame of inspect.stack(): frame_info.function and frame.f_locals,
\* the latter restricted to its 'self' entry
Frame(function, f_locals) == [function |-> function, f_locals |-> f_locals]

NoLocals == [n \in {} |-> [type |-> "NoneType"]]
SelfLocals(obj) == [n \in {"self"} |-> obj]

Obj(type) == [type |-> type]
NoneObj == Obj("NoneType")

\* line 125
class_name(frame) ==
    IF "self" \in DOMAIN frame.f_locals
        THEN frame.f_locals["self"].type
        ELSE None

\* the list of line 131 with its last entry lost
InfraClasses_Short ==
    {"Thread", "ThreadedTaskDispatcher", "HTTPChannel", "WSGITask", "Flask"}

\* the list of line 131
InfraClasses ==
    {"Thread", "ThreadedTaskDispatcher", "HTTPChannel", "WSGITask", "Flask",
     "StructuredTool"}

\* lines 127-132: TRUE when the loop body reaches a continue
Skipped(frame, selfcls) ==
    \/ frame.function \in {"<module>", "translate_proxy_headers"}
    \/ class_name(frame) = "<module>"
    \/ class_name(frame) = selfcls
    \/ class_name(frame) \in InfraClasses

\* lines 133-136: the entry appended for a frame that is not skipped
Entry(frame) ==
    IF Truthy(class_name(frame))
        THEN class_name(frame) \o "." \o frame.function
        ELSE frame.function

\* lines 121-136: call_hierarchy after the loop over frames
RECURSIVE Hierarchy(_, _)
Hierarchy(frames, selfcls) ==
    IF frames = <<>> THEN <<>>
    ELSE LET rest == Hierarchy(SubSeq(frames, 1, Len(frames) - 1), selfcls)
             frame == frames[Len(frames)]
         IN  IF Skipped(frame, selfcls) THEN rest ELSE Append(rest, Entry(frame))

\* line 137 without reversed()
Reversed_Not(seq) == seq

\* reversed(seq)
Reversed(seq) == [i \in 1..Len(seq) |-> seq[Len(seq) + 1 - i]]

\* sep.join(seq)
RECURSIVE Join(_, _)
Join(sep, seq) ==
    IF seq = <<>> THEN ""
    ELSE IF Len(seq) = 1 THEN seq[1]
    ELSE seq[1] \o sep \o Join(sep, Tail(seq))

\* lines 119-137, for the stack stk = inspect.stack()
get_call_tree(stk, selfcls) ==
    Join(" -> ", Reversed(Hierarchy(Tail(stk), selfcls)))

\* the frames of the logger's own methods, innermost first, when an entry
\* point runs: _get_call_tree, _log, and the entry point
OwnFrames(entry, selfcls) ==
    <<Frame("_get_call_tree", SelfLocals(Obj(selfcls))),
      Frame("_log", SelfLocals(Obj(selfcls))),
      Frame(entry, SelfLocals(Obj(selfcls)))>>

----------------------------------------------------------------------------
(* Logger._log and the entry points *)

Sinks == {"stdout", "es", "oo"}

\* line 65 without .upper()
upper_Not(level) == level

\* str.upper() on the level names the entry points pass
upper(level) ==
    CASE level = "info" -> "INFO"
      [] level = "warning" -> "WARNING"
      [] level = "error" -> "ERROR"
      [] level = "debug" -> "DEBUG"

\* an instant of datetime.now(ZoneInfo("Europe/Berlin")): its date and time,
\* its microseconds, and the hours and minutes of its UTC offset
Instants ==
    {[ymdhms |-> "2026-01-15T10:30:00", micro |-> "000123", off |-> <<"+01", "00">>]}

\* now.strftime("%Y-%m-%dT%H:%M:%S%z")
strftime(now) == now.ymdhms \o now.off[1] \o now.off[2]

\* now.isoformat()
isoformat(now) ==
    now.ymdhms \o (IF now.micro = "" THEN "" ELSE "." \o now.micro)
        \o now.off[1] \o ":" \o now.off[2]

\* the exception a failing write on sink s raises
SinkError(s) == [type |-> "SinkError", sink |-> s]

\* line 64
PrintsToConsole(m) == m \in {S_console, S_dual}

\* line 65
ConsoleLine(message, level, tree) ==
    upper(level) \o ": " \o message \o ", " \o tree

\* line 67
ElasticBody(message, level, tree, now) ==
    [message |-> message, level |-> level, call_tree |-> tree, ts |-> strftime(now)]

\* lines 69-74
ObserveDocument(message, level, tree, now) ==
    [level |-> level, message |-> message, call_tree |-> tree,
     datetime |-> isoformat(now)]

\* lines 62-75 wrapped in a try/except that swallows a backend failure
Propagated_Swallowed(printFailed, esFailed, ooFailed) ==
    IF printFailed THEN SinkError("stdout") ELSE NoError

\* lines 62-75 hold no try/except: the exception of the first statement
\* that fails leaves _log, and so the entry point, as it was raised
Propagated(printFailed, esFailed, ooFailed) ==
    IF printFailed THEN SinkError("stdout")
    ELSE IF esFailed THEN SinkError("es")
    ELSE IF ooFailed THEN SinkError("oo")
    ELSE NoError

\* _log falling back to console mode when the call raised
AttributesKept_Fallback ==
    /\ mode' = IF raised' # NoError THEN S_console ELSE mode
    /\ UNCHANGED <<args, phase, cls, es, oo, index, clients>>

\* lines 54-137 assign no attribute of self and construct no client
AttributesKept == UNCHANGED <<args, phase, cls, mode, es, oo, index, clients>>

\* lines 54-75, called from the entry point named level by the callers
\* (innermost first); fails is the set of sinks whose write fails
log(message, level, callers, fails, now) ==
    LET stk == OwnFrames(level, cls) \o callers
        tree == get_call_tree(stk, cls)
        doPrint == PrintsToConsole(mode)
        printed == doPrint /\ "stdout" \notin fails
        pastPrint == ~doPrint \/ printed
        doEs == pastPrint /\ Contains(S_elastic, mode)
        esDone == doEs /\ "es" \notin fails
        pastEs == pastPrint /\ (~doEs \/ esDone)
        doOo == pastEs /\ Contains(S_observe, mode)
        ooDone == doOo /\ "oo" \notin fails
    IN  /\ phase = "constructed"
        /\ emits < MaxEmits
        /\ emits' = emits + 1
        /\ call' = [entry |-> level, message |-> message]
        /\ stack' = stk
        /\ call_tree' = tree
        /\ stdout' = IF printed
                        THEN Append(stdout, ConsoleLine(message, level, tree))
                        ELSE stdout
        /\ esLog' = IF doEs
                       THEN Append(esLog,
                                [index |-> index,
                                 body |-> ElasticBody(message, level, tree, now),
                                 ok |-> esDone])
                       ELSE esLog
        /\ ooLog' = IF doOo
                       THEN Append(ooLog,
                                [index |-> index,
                                 document |-> ObserveDocument(message, level, tree, now),
                                 ok |-> ooDone])
                       ELSE ooLog
        /\ raised' = Propagated(doPrint /\ ~printed, doEs /\ ~esDone, doOo /\ ~ooDone)
        /\ AttributesKept

Messages == {"hello", "disk full"}

\* the sinks that are down during a call: none, or one of them
Failures == {{}} \cup {{s} : s \in Sinks}

\* caller stacks above the entry point, innermost first
Callers ==
    {<<Frame("<module>", NoLocals)>>,
     <<Frame("bar", SelfLocals(Obj("Foo"))), Frame("outer", NoLocals),
       Frame("<module>", NoLocals)>>}

\* lines 77-85
info ==
    \E message \in Messages, callers \in Callers, fails \in Failures,
       now \in Instants : log(message, "info", callers, fails, now)

\* lines 87-95
warning ==
    \E message \in Messages, callers \in Callers, fails \in Failures,
       now \in Instants : log(message, "warning", callers, fails, now)

\* lines 97-105
error ==
    \E message \in Messages, callers \in Callers, fails \in Failures,
       now \in Instants : log(message, "error", callers, fails, now)

\* lines 107-115
debug ==
    \E message \in Messages, callers \in Callers, fails \in Failures,
       now \in Instants : log(message, "debug", callers, fails, now)

\* constructor calls that supply every optional parameter
FullArgs ==
    {a \in AllArgs : a.url = "v" /\ a.elastic_key = "v" /\ a.oo_user = "v"
                        /\ a.oo_password = "v" /\ a.index = "app"}

Init ==
    /\ args \in FullArgs
    /\ cls = "Logger"
    /\ Fresh

Next == Logger_init \/ debug \/ info \/ warning \/ error

Spec == Init /\ [][Next]_vars

----------------------------------------------------------------------------
(* The resolver applied to arbitrary stacks *)

\* runtime class names of the receivers of frames
Classes ==
    {"Foo", "Logger", "AuditLogger", "<module>", "Thread",
     "ThreadedTaskDispatcher", "HTTPChannel", "WSGITask", "Flask",
     "StructuredTool"}

AnyLocals == {NoLocals, SelfLocals(NoneObj)} \cup {SelfLocals(Obj(c)) : c \in Classes}

ResolverFrames ==
    {Frame(fn, loc) : fn \in {"<module>", "translate_proxy_headers"},
                      loc \in {NoLocals, SelfLocals(Obj("Foo"))}}
    \cup {Frame("outer", loc) : loc \in {NoLocals, SelfLocals(NoneObj)}}
    \cup {Frame("bar", loc) : loc \in AnyLocals}
    \cup {Frame("info", SelfLocals(Obj("Logger")))}

Stacks == UNION {[1..n -> ResolverFrames] : n \in 0..MaxStack}

\* a console logger of class Logger or of a subclass of it, about to
\* resolve the stack captured in stack
InitResolve ==
    /\ args = [mode |-> S_console, url |-> None, elastic_key |-> None,
               oo_user |-> None, oo_password |-> None, index |-> "logs"]
    /\ cls \in {"Logger", "AuditLogger"}
    /\ phase = "constructed"
    /\ mode = S_console /\ es = NoHandle /\ oo = NoHandle /\ index = "logs"
    /\ clients = <<>> /\ raised = NoError
    /\ stdout = <<>> /\ esLog = <<>> /\ ooLog = <<>>
    /\ emits = 0 /\ call = NoCall
    /\ \E above \in Stacks :
          stack = <<Frame("_get_call_tree", SelfLocals(Obj(cls)))>> \o above
    /\ call_tree = None

Resolve ==
    /\ call_tree = None
    /\ call_tree' = get_call_tree(stack, cls)
    /\ UNCHANGED <<args, phase, cls, mode, es, oo, index, clients, raised,
                   stdout, esLog, ooLog, emits, call, stack>>

NextResolve == Resolve

SpecResolve == InitResolve /\ [][NextResolve]_vars

----------------------------------------------------------------------------
(* Properties of the constructor, checked under SpecCtor *)

\* the five recognised modes
RecognisedModes ==
    {S_console, S_elastic, S_openobserve, S_dual_elastic, S_dual_observe}

Omitted(v) == v = None \/ v = ""

Returned == phase # "new"

\* C1: for every mode string outside the five recognised modes, whatever the
\* other parameters are, construction fails with a configuration error, the
\* error is the one of the mode check (it fires first), and no backend
\* client is created or stored.
C1_InvalidModeFails ==
    (Returned /\ args.mode \notin RecognisedModes) =>
        /\ phase = "failed"
        /\ raised = ModeError
        /\ es = NoHandle /\ oo = NoHandle
        /\ clients = <<>>
        /\ mode = Unset

C1_Witness ==
    /\ phase = "failed"
    /\ args.mode = S_elasticsearch
    /\ Omitted(args.url)
    /\ raised = ModeError

\* C2: for mode elastic and dual-elastic, construction fails with a
\* configuration error and creates no backend-A client when url or the API
\* key is missing or empty; otherwise it succeeds, storing exactly one
\* backend-A client and no backend-B client, whatever oo_user and
\* oo_password are.
C2_ElasticParameters ==
    (Returned /\ args.mode \in {S_elastic, S_dual_elastic}) =>
        IF Omitted(args.url) \/ Omitted(args.elastic_key)
            THEN /\ phase = "failed"
                 /\ raised.type = "ValueError"
                 /\ es = NoHandle
                 /\ clients = <<>>
            ELSE /\ phase = "constructed"
                 /\ raised = NoError
                 /\ es = [kind |-> "Elasticsearch", url |-> args.url,
                          api_key |-> args.elastic_key]
                 /\ oo = NoHandle
                 /\ clients = <<es>>

C2_Witness ==
    /\ phase = "constructed"
    /\ args.mode = S_dual_elastic
    /\ args.oo_user = "v" /\ args.oo_password = "v"
    /\ es.kind = "Elasticsearch"
    /\ oo = NoHandle

\* C3: for mode openobserve and dual-observe, construction fails with a
\* configuration error and creates no backend-B client when url, the user
\* name or the password is missing or empty; otherwise it succeeds, storing
\* exactly one backend-B client and no backend-A client, whatever
\* elastic_key is.
C3_ObserveParameters ==
    (Returned /\ args.mode \in {S_openobserve, S_dual_observe}) =>
        IF Omitted(args.url) \/ Omitted(args.oo_user) \/ Omitted(args.oo_password)
            THEN /\ phase = "failed"
                 /\ raised.type = "ValueError"
                 /\ oo = NoHandle
                 /\ clients = <<>>
            ELSE /\ phase = "constructed"
                 /\ raised = NoError
                 /\ oo = [kind |-> "OpenObserve", user |-> args.oo_user,
                          password |-> args.oo_password, host |-> args.url,
                          verify |-> FALSE]
                 /\ es = NoHandle
                 /\ clients = <<oo>>

C3_Witness ==
    /\ phase = "constructed"
    /\ args.mode = S_dual_observe
    /\ args.elastic_key = "v"
    /\ oo.kind = "OpenObserve"
    /\ es = NoHandle

----------------------------------------------------------------------------
(* Properties of the entry points, checked under Spec *)

\* a step that is one call of debug, info, warning or error
EmitStep == emits' = emits + 1

\* the number of documents a backend indexed
Indexed(requests) == Cardinality({i \in DOMAIN requests : requests[i].ok})

\* the sinks each mode makes active
ActiveSinks(m) ==
    CASE m = S_console -> {"stdout"}
      [] m = S_elastic -> {"es"}
      [] m = S_openobserve -> {"oo"}
      [] m = S_dual_elastic -> {"stdout", "es"}
      [] m = S_dual_observe -> {"stdout", "oo"}

\* C4: every call of an entry point that returns normally writes exactly one
\* record to each sink the mode makes active and none to any other sink; in
\* the dual modes that is one console line and one document on the backend.
C4_EveryActiveSinkWritten ==
    [][(EmitStep /\ raised' = NoError) =>
          /\ Len(stdout') =
                Len(stdout) + (IF "stdout" \in ActiveSinks(mode) THEN 1 ELSE 0)
          /\ Indexed(esLog') =
                Indexed(esLog) + (IF "es" \in ActiveSinks(mode) THEN 1 ELSE 0)
          /\ Indexed(ooLog') =
                Indexed(ooLog) + (IF "oo" \in ActiveSinks(mode) THEN 1 ELSE 0)]_vars

\* the expected level tag of each entry point
LevelTag(entry) ==
    CASE entry = "debug" -> "DEBUG"
      [] entry = "info" -> "INFO"
      [] entry = "warning" -> "WARNING"
      [] entry = "error" -> "ERROR"

\* the frames the resolver looked at in the last call: all but its own
Seen == Tail(stack)

\* the claims' exclusion rule for a frame
Excluded(frame, selfcls) ==
    LET type == IF "self" \in DOMAIN frame.f_locals
                    THEN frame.f_locals["self"].type ELSE None
    IN  \/ frame.function = "<module>"
        \/ frame.function = "translate_proxy_headers"
        \/ type = "<module>"
        \/ type = selfcls
        \/ type \in {"Thread", "ThreadedTaskDispatcher", "HTTPChannel",
                     "WSGITask", "Flask", "StructuredTool"}

\* C7: when every frame of the stack is filtered out the call path is the
\* empty string and the call fails only if the sink fails; a console-mode
\* info("hello") then prints "INFO: hello, ".  Every console line printed is
\* LEVEL: message, call_tree with LEVEL the upper-cased name of the entry
\* point called.
C7_ConsoleLine ==
    (call # NoCall) =>
        /\ (\A i \in DOMAIN Seen : Excluded(Seen[i], cls)) => call_tree = ""
        /\ (mode = S_console) =>
              /\ raised \in {NoError, SinkError("stdout")}
              /\ (raised = NoError) =>
                    /\ stdout # <<>>
                    /\ stdout[Len(stdout)] =
                          LevelTag(call.entry) \o ": " \o call.message \o ", "
                              \o call_tree
                    /\ (call.entry = "info" /\ call.message = "hello"
                            /\ call_tree = "")
                          => stdout[Len(stdout)] = "INFO: hello, "

C7_Witness ==
    /\ mode = S_console
    /\ call = [entry |-> "info", message |-> "hello"]
    /\ raised = NoError
    /\ Len(Seen) = 3
    /\ call_tree = ""
    /\ stdout[Len(stdout)] = "INFO: hello, "

IsPrefix(a, b) == Len(a) <= Len(b) /\ SubSeq(b, 1, Len(a)) = a

\* a step that prints nothing but, in a mode with the console active, the
\* line of the call itself
ConsoleNotUsedInstead ==
    IF "stdout" \in ActiveSinks(mode)
        THEN Len(stdout') <= Len(stdout) + 1
        ELSE stdout' = stdout

\* C8: a failing sink write makes the entry point raise exactly the sink's
\* error: the failing request was made once, nothing is printed in its
\* place, no sink later in the order (stdout, es, oo) is written, what the
\* sinks already hold stays, and the logger keeps its mode and handles, so
\* that a later call works as before.
C8_FailurePropagates ==
    [][EmitStep =>
          /\ (Len(esLog') > Len(esLog) /\ ~esLog'[Len(esLog')].ok)
                => raised' = SinkError("es")
          /\ (Len(ooLog') > Len(ooLog) /\ ~ooLog'[Len(ooLog')].ok)
                => raised' = SinkError("oo")
          /\ (raised' # NoError) =>
                /\ raised' \in {SinkError(s) : s \in Sinks}
                /\ IsPrefix(stdout, stdout') /\ IsPrefix(esLog, esLog')
                /\ IsPrefix(ooLog, ooLog')
                /\ (raised'.sink = "stdout") =>
                      stdout' = stdout /\ esLog' = esLog /\ ooLog' = ooLog
                /\ (raised'.sink = "es") =>
                      /\ esLog' = Append(esLog, esLog'[Len(esLog')])
                      /\ ~esLog'[Len(esLog')].ok
                      /\ ConsoleNotUsedInstead
                      /\ ooLog' = ooLog
                /\ (raised'.sink = "oo") =>
                      /\ ooLog' = Append(ooLog, ooLog'[Len(ooLog')])
                      /\ ~ooLog'[Len(ooLog')].ok
                      /\ ConsoleNotUsedInstead
                /\ phase' = "constructed"
                /\ mode' = mode /\ es' = es /\ oo' = oo /\ index' = index]_vars

C8_Witness ==
    /\ emits = 2
    /\ raised = NoError
    /\ Len(esLog) = 2
    /\ ~esLog[1].ok
    /\ esLog[2].ok
    /\ stdout = <<>>

\* C9: once constructed, the logger's mode, its handles and its index name
\* never change, and no further client is constructed, whatever calls of the
\* entry points follow and whether they raise or not.
C9_ConfigurationImmutable ==
    [][(phase = "constructed") =>
          /\ phase' = "constructed"
          /\ mode' = mode /\ es' = es /\ oo' = oo /\ index' = index
          /\ clients' = clients /\ cls' = cls]_vars

C9_Witness ==
    /\ phase = "constructed"
    /\ emits = 2
    /\ raised # NoError
    /\ mode = S_dual_observe
    /\ oo.kind = "OpenObserve"
    /\ index = "app"

----------------------------------------------------------------------------
(* Properties of the resolver, checked under SpecResolve *)

Resolved == call_tree # None

\* the enclosing type of a frame: the runtime type of the value its local
\* scope holds under 'self', None when it holds no such entry
EnclosingType(frame) ==
    IF "self" \in DOMAIN frame.f_locals THEN frame.f_locals["self"].type ELSE None

Formatted(frame) ==
    IF EnclosingType(frame) = None
        THEN frame.function
        ELSE EnclosingType(frame) \o "." \o frame.function

\* the path of the frames (innermost first): the surviving frames from the
\* outermost to the innermost, joined by " -> "
RECURSIVE ExpectedPath(_, _)
ExpectedPath(frames, selfcls) ==
    IF frames = <<>> THEN ""
    ELSE LET outer == ExpectedPath(Tail(frames), selfcls)
         IN  IF Excluded(Head(frames), selfcls) THEN outer
             ELSE IF outer = "" THEN Formatted(Head(frames))
             ELSE outer \o " -> " \o Formatted(Head(frames))

InfoBarOuter ==
    <<Frame("info", SelfLocals(Obj("Logger"))),
      Frame("bar", SelfLocals(Obj("Foo"))),
      Frame("outer", NoLocals)>>

\* C5: the resolved path lists the surviving frames outermost first, each
\* once, as EnclosingType.functionName or as functionName alone, joined by
\* " -> "; the stack [Logger.info, Foo.bar, outer] resolves to
\* "outer -> Foo.bar".
C5_PathOutermostFirst ==
    Resolved =>
        /\ call_tree = ExpectedPath(Seen, cls)
        /\ (cls = "Logger" /\ Seen = InfoBarOuter) => call_tree = "outer -> Foo.bar"

C5_Witness ==
    /\ Resolved
    /\ cls = "Logger"
    /\ Seen = InfoBarOuter
    /\ call_tree = "outer -> Foo.bar"

\* the stack without its frame at position i
Without(frames, i) == SubSeq(frames, 1, i - 1) \o SubSeq(frames, i + 1, Len(frames))

\* C6: at every position of the stack, the frame there is left out of the
\* path exactly when the exclusion rule names it: taking an excluded frame
\* off the stack leaves the path as it is (its neighbours stay, in order),
\* and taking any other frame off changes it.
C6_ExcludedExactly ==
    Resolved =>
        \A i \in DOMAIN Seen :
            Excluded(Seen[i], cls)
                <=> call_tree = get_call_tree(<<stack[1]>> \o Without(Seen, i), cls)

C6_Witness ==
    /\ Resolved
    /\ cls = "AuditLogger"
    /\ Len(Seen) = 3
    /\ Seen[1] = Frame("bar", SelfLocals(Obj("Logger")))
    /\ Seen[2] = Frame("bar", SelfLocals(Obj("StructuredTool")))
    /\ Seen[3] = Frame("outer", NoLocals)
    /\ call_tree = "outer -> Logger.bar"

\* a frame without the expected introspection data: no 'self' in its local
\* scope, or a 'self' that holds None
LacksReceiver(frame) ==
    \/ "self" \notin DOMAIN frame.f_locals
    \/ frame.f_locals["self"] = NoneObj

FormattedLenient(frame) ==
    IF LacksReceiver(frame)
        THEN frame.function
        ELSE frame.f_locals["self"].type \o "." \o frame.function

RECURSIVE LenientPath(_, _)
LenientPath(frames, selfcls) ==
    IF frames = <<>> THEN ""
    ELSE LET outer == LenientPath(Tail(frames), selfcls)
         IN  IF frames[1].function \in {"<module>", "translate_proxy_headers"}
                  \/ (~LacksReceiver(frames[1]) /\ Excluded(frames[1], selfcls))
                 THEN outer
             ELSE IF outer = "" THEN FormattedLenient(frames[1])
             ELSE outer \o " -> " \o FormattedLenient(frames[1])

\* C10: resolution returns a path for every stack, and a frame with no
\* 'self' in its local scope or with a 'self' holding None appears, unless
\* its function name is filtered, as its function name alone.
C10_MissingReceiverIsNoType ==
    Resolved => call_tree = LenientPath(Seen, cls)

====
